---------------------------- MODULE Spec2Model ----------------------------
(***************************************************************************)
(* A model of the grade aggregation engine of canvas_grade_calculator.py:  *)
(* the weight resolver (normalize_weights, WeightPlan.from_user), the      *)
(* categorizer (categorize_assignments), the category tally engine         *)
(* (compute_category_results) and the weighted rollup (weighted_total).    *)
(*                                                                         *)
(* Python floats are modelled as exact rationals <<n, d>> in lowest terms  *)
(* with d > 0, so sums and quotients are exact and rounding is not         *)
(* modelled.  An Optional value is <<>> (None) or <<v>> (a present v).     *)
(* A dict is a function over its key set.                                  *)
(***************************************************************************)
EXTENDS Integers, Sequences, FiniteSets, TLC

VARIABLES pc, user_weights, canvas_groups, weight_plan,
          assignments, groups_by_id, by_group, final_policy,
          categories, totals,
          course_id, cli_weights, cli_policy, cfg, stderr

vars == <<pc, user_weights, canvas_groups, weight_plan,
          assignments, groups_by_id, by_group, final_policy,
          categories, totals,
          course_id, cli_weights, cli_policy, cfg, stderr>>

\* The arguments of handle_course's precedence lookups, which nothing writes.
args == <<course_id, cli_weights, cli_policy, cfg>>

---------------------------------------------------------------------------
(* Bounds of the model. *)

\* Longest list of source assignment groups handed to WeightPlan.from_user.
MaxGroups == 2

\* Longest list of assignments of a course.
MaxAssignments == 2

\* Longest list of category results handed to weighted_total on its own.
MaxCategories == 2

---------------------------------------------------------------------------
(* Optional values and float arithmetic. *)

None == << >>

Some(v) == <<v>>

IsNone(o) == Len(o) = 0

Abs(n) == IF n < 0 THEN -n ELSE n

RECURSIVE Gcd(_, _)
Gcd(a, b) == IF b = 0 THEN a ELSE Gcd(b, a % b)

\* The float n/d, d # 0, in lowest terms with a positive denominator.
Rat(n, d) ==
    LET s == IF d < 0 THEN -1 ELSE 1
        g == Gcd(Abs(n), Abs(d))
    IN  <<(s * n) \div g, (s * d) \div g>>

Float(n) == <<n, 1>>

Zero == Float(0)

Hundred == Float(100)

RAdd(x, y) == Rat(x[1] * y[2] + y[1] * x[2], x[2] * y[2])

RMul(x, y) == Rat(x[1] * y[1], x[2] * y[2])

\* x / y for y # 0 (every division of the program is guarded by y > 0).
RDiv(x, y) == Rat(x[1] * y[2], x[2] * y[1])

RLe(x, y) == x[1] * y[2] <= y[1] * x[2]

RLt(x, y) == x[1] * y[2] < y[1] * x[2]

RMax(x, y) == IF RLe(x, y) THEN y ELSE x

\* sum(d.values()) of a dict d.
RECURSIVE SumOver(_, _)
SumOver(d, keys) ==
    IF keys = {} THEN Zero
    ELSE LET k == CHOOSE x \in keys : TRUE
         IN  RAdd(d[k], SumOver(d, keys \ {k}))

DictSum(d) == SumOver(d, DOMAIN d)

EmptyDict == << >>

---------------------------------------------------------------------------
(* Weight handling. *)

\* The outcome of a call that returns a dict or raises ValueError(error).
Return(d) == [error |-> "", by_group_name |-> d]

Raise(msg) == [error |-> msg, by_group_name |-> EmptyDict]

Raised(outcome) == outcome.error # ""

SumError == "Sum of weights must be > 0"

NoWeightsError == "No weights provided and course does not have weighted assignment groups in Canvas."

normalize_weights_unscaled(weights) ==
    LET total == DictSum(weights)
    IN  IF RLe(total, Zero)
        THEN Raise(SumError)
        ELSE Return([k \in DOMAIN weights |-> RDiv(weights[k], total)])

normalize_weights_unchecked(weights) ==
    LET total == DictSum(weights)
    IN  IF total = Zero
        THEN Raise(SumError)
        ELSE Return([k \in DOMAIN weights |->
                        RMul(RDiv(weights[k], total), Hundred)])

normalize_weights(weights) ==
    LET total == DictSum(weights)
    IN  IF RLe(total, Zero)
        THEN Raise(SumError)
        ELSE Return([k \in DOMAIN weights |->
                        RMul(RDiv(weights[k], total), Hundred)])

\* The loop of from_user over canvas_groups: a later group of the same name
\* overwrites the weight an earlier one stored.
RECURSIVE canvas_defined_of(_)
canvas_defined_of(groups) ==
    IF Len(groups) = 0 THEN EmptyDict
    ELSE LET d == canvas_defined_of(SubSeq(groups, 1, Len(groups) - 1))
             g == groups[Len(groups)]
         IN  IF ~IsNone(g.group_weight)
             THEN [k \in DOMAIN d \cup {g.name} |->
                      IF k = g.name THEN g.group_weight[1] ELSE d[k]]
             ELSE d

FractionThreshold == Rat(1001, 1000)

from_user_fraction_raw(uw, groups) ==
    IF ~IsNone(uw) /\ DOMAIN uw[1] # {}
    THEN normalize_weights(uw[1])
    ELSE LET canvas_defined == canvas_defined_of(groups)
             total == DictSum(canvas_defined)
         IN  IF DOMAIN canvas_defined = {}
             THEN Raise(NoWeightsError)
             ELSE IF RLt(Zero, total) /\ RLe(total, FractionThreshold)
                  THEN Return([k \in DOMAIN canvas_defined |->
                                  RMul(canvas_defined[k], Hundred)])
                  ELSE normalize_weights(canvas_defined)

from_user(uw, groups) ==
    IF ~IsNone(uw) /\ DOMAIN uw[1] # {}
    THEN normalize_weights(uw[1])
    ELSE LET canvas_defined == canvas_defined_of(groups)
             total == DictSum(canvas_defined)
         IN  IF DOMAIN canvas_defined = {}
             THEN Raise(NoWeightsError)
             ELSE IF RLt(Zero, total) /\ RLe(total, FractionThreshold)
                  THEN normalize_weights(
                           [k \in DOMAIN canvas_defined |->
                               RMul(canvas_defined[k], Hundred)])
                  ELSE normalize_weights(canvas_defined)

---------------------------------------------------------------------------
(* Calculation. *)

IGNORE_ALL == "ignore_all"

MISSING_ZERO_UPCOMING_IGNORE == "missing_zero_upcoming_ignore"

ALL_ZERO == "all_zero"

UncategorizedId == -1

UncategorizedName == "(Uncategorized)"

\* a.assignment_group_id or -1: None and 0 are both falsy.
gid_of(a) ==
    IF IsNone(a.assignment_group_id) \/ a.assignment_group_id[1] = 0
    THEN UncategorizedId
    ELSE a.assignment_group_id[1]

\* by_group.setdefault(gid, []).append(a) over the list: the dict, in the
\* insertion order of its keys, as a sequence of [gid, items].
RECURSIVE by_group_of(_)
by_group_of(as) ==
    IF Len(as) = 0 THEN << >>
    ELSE LET prev == by_group_of(SubSeq(as, 1, Len(as) - 1))
             a == as[Len(as)]
             gid == gid_of(a)
         IN  IF \E i \in DOMAIN prev : prev[i].gid = gid
             THEN [i \in DOMAIN prev |->
                      IF prev[i].gid = gid
                      THEN [prev[i] EXCEPT !.items = Append(@, a)]
                      ELSE prev[i]]
             ELSE Append(prev, [gid |-> gid, items |-> <<a>>])

\* groups_by_id after categorize_assignments: -1 is added when absent.
groups_with_uncategorized(groups) ==
    IF UncategorizedId \in DOMAIN groups
    THEN groups
    ELSE [g \in DOMAIN groups \cup {UncategorizedId} |->
             IF g = UncategorizedId
             THEN [name |-> UncategorizedName, group_weight |-> None]
             ELSE groups[g]]

\* The rank of name.lower() in the order of Python strings, for the group
\* names of the model: "(uncategorized)" < "exams" < "homework".
LowerKey(name) ==
    CASE name = UncategorizedName -> 0
      [] name \in {"Exams", "exams"} -> 1
      [] name \in {"Homework", "homework"} -> 2
      [] OTHER -> 3

\* sorted(by_group.items(), key=...): a stable sort, by insertion.
RECURSIVE InsertSorted(_, _, _)
InsertSorted(sorted, b, groups) ==
    IF Len(sorted) = 0 THEN <<b>>
    ELSE IF LowerKey(groups[sorted[Len(sorted)].gid].name)
              <= LowerKey(groups[b.gid].name)
         THEN Append(sorted, b)
         ELSE Append(InsertSorted(SubSeq(sorted, 1, Len(sorted) - 1), b, groups),
                     sorted[Len(sorted)])

RECURSIVE sorted_by_name(_, _)
sorted_by_name(buckets, groups) ==
    IF Len(buckets) = 0 THEN << >>
    ELSE InsertSorted(
             sorted_by_name(SubSeq(buckets, 1, Len(buckets) - 1), groups),
             buckets[Len(buckets)], groups)

\* weight_plan.by_group_name.get(group_name, 0.0)
weight_of(plan, group_name) ==
    IF group_name \in DOMAIN plan THEN plan[group_name] ELSE Zero

\* pts = a.points_possible or 0.0
pts_of(a) ==
    IF IsNone(a.points_possible) THEN Zero ELSE a.points_possible[1]

counted_ignoring_published(a) == RLt(Zero, pts_of(a))

\* Neither of the two "continue" statements is taken for a.
counted(a) == a.published /\ RLt(Zero, pts_of(a))

is_graded(sub) ==
    ~IsNone(sub) /\ ~IsNone(sub[1].score) /\ ~sub[1].excused

is_missing(sub) == ~IsNone(sub) /\ sub[1].missing

NewTally == [earned |-> Zero, possible |-> Zero]

add_graded_unclamped(t, a) ==
    [earned |-> RAdd(t.earned, a.submission[1].score[1]),
     possible |-> RAdd(t.possible, pts_of(a))]

\* earned += max(0.0, float(sub.score)); possible += pts
add_graded(t, a) ==
    [earned |-> RAdd(t.earned, RMax(Zero, a.submission[1].score[1])),
     possible |-> RAdd(t.possible, pts_of(a))]

add_possible(t, a) == [t EXCEPT !.possible = RAdd(@, pts_of(a))]

running_step(t, a) ==
    IF is_graded(a.submission) THEN add_graded(t, a) ELSE t

final_step_ignore_all_counts_missing(t, a, policy) ==
    IF policy = ALL_ZERO
    THEN IF is_graded(a.submission) THEN add_graded(t, a)
         ELSE add_possible(t, a)
    ELSE IF is_graded(a.submission) THEN add_graded(t, a)
         ELSE IF is_missing(a.submission) THEN add_possible(t, a) ELSE t

final_step_all_zero_skips_excused(t, a, policy) ==
    IF policy = IGNORE_ALL
    THEN IF is_graded(a.submission) THEN add_graded(t, a) ELSE t
    ELSE IF policy = ALL_ZERO
    THEN IF is_graded(a.submission) THEN add_graded(t, a)
         ELSE IF ~IsNone(a.submission) /\ a.submission[1].excused THEN t
         ELSE add_possible(t, a)
    ELSE IF is_graded(a.submission) THEN add_graded(t, a)
         ELSE IF is_missing(a.submission) THEN add_possible(t, a) ELSE t

final_step_counts_upcoming(t, a, policy) ==
    IF policy = IGNORE_ALL
    THEN IF is_graded(a.submission) THEN add_graded(t, a) ELSE t
    ELSE IF is_graded(a.submission) THEN add_graded(t, a)
         ELSE add_possible(t, a)

final_step_ignore_all_as_all_zero(t, a, policy) ==
    IF policy = IGNORE_ALL \/ policy = ALL_ZERO
    THEN IF is_graded(a.submission) THEN add_graded(t, a)
         ELSE add_possible(t, a)
    ELSE IF is_graded(a.submission) THEN add_graded(t, a)
         ELSE IF is_missing(a.submission) THEN add_possible(t, a) ELSE t

final_step_earns_unclamped(t, a, policy) ==
    IF policy = IGNORE_ALL
    THEN IF is_graded(a.submission) THEN add_graded_unclamped(t, a) ELSE t
    ELSE IF policy = ALL_ZERO
    THEN IF is_graded(a.submission) THEN add_graded_unclamped(t, a)
         ELSE add_possible(t, a)
    ELSE IF is_graded(a.submission) THEN add_graded_unclamped(t, a)
         ELSE IF is_missing(a.submission) THEN add_possible(t, a) ELSE t

final_step(t, a, policy) ==
    IF policy = IGNORE_ALL
    THEN IF is_graded(a.submission) THEN add_graded(t, a) ELSE t
    ELSE IF policy = ALL_ZERO
    THEN IF is_graded(a.submission) THEN add_graded(t, a)
         ELSE add_possible(t, a)
    ELSE IF is_graded(a.submission) THEN add_graded(t, a)
         ELSE IF is_missing(a.submission) THEN add_possible(t, a) ELSE t

\* The loop over one category's assignments: [running, final] after it.
RECURSIVE tally_of(_, _)
tally_of(items, policy) ==
    IF Len(items) = 0 THEN [running |-> NewTally, final |-> NewTally]
    ELSE LET t == tally_of(SubSeq(items, 1, Len(items) - 1), policy)
             a == items[Len(items)]
         IN  IF ~counted(a) THEN t
             ELSE [running |-> running_step(t.running, a),
                   final |-> final_step(t.final, a, policy)]

pct_of_zero_when_empty(t) ==
    IF RLt(Zero, t.possible)
    THEN Some(RMul(RDiv(t.earned, t.possible), Hundred))
    ELSE Some(Zero)

\* (earned / possible * 100.0) if possible > 0 else None
pct_of(t) ==
    IF RLt(Zero, t.possible)
    THEN Some(RMul(RDiv(t.earned, t.possible), Hundred))
    ELSE None

category_result(b, groups, plan, policy) ==
    LET t == tally_of(b.items, policy)
    IN  [group_id |-> b.gid,
         group_name |-> groups[b.gid].name,
         weight_pct |-> weight_of(plan, groups[b.gid].name),
         running_earned |-> t.running.earned,
         running_possible |-> t.running.possible,
         running_pct |-> pct_of(t.running),
         final_earned |-> t.final.earned,
         final_possible |-> t.final.possible,
         final_pct |-> pct_of(t.final)]

\* groups_by_id[gid] for a gid that is no key raises KeyError.
key_error(buckets, groups) ==
    \E i \in DOMAIN buckets : buckets[i].gid \notin DOMAIN groups

\* The list compute_category_results returns when no KeyError is raised.
compute_category_results(buckets, groups, plan, policy) ==
    LET ordered == sorted_by_name(buckets, groups)
    IN  [i \in DOMAIN ordered |->
            category_result(ordered[i], groups, plan, policy)]

\* The sums of weighted_total's loop: [running_sum, final_sum, weight_total].
RECURSIVE rollup_sums(_)
rollup_sums(cats) ==
    IF Len(cats) = 0
    THEN [running_sum |-> Zero, final_sum |-> Zero, weight_total |-> Zero]
    ELSE LET s == rollup_sums(SubSeq(cats, 1, Len(cats) - 1))
             c == cats[Len(cats)]
             w == c.weight_pct
         IN  IF RLe(w, Zero) THEN s
             ELSE [running_sum |->
                      IF IsNone(c.running_pct) THEN s.running_sum
                      ELSE RAdd(s.running_sum,
                                RDiv(RMul(c.running_pct[1], w), Hundred)),
                   final_sum |->
                      IF IsNone(c.final_pct) THEN s.final_sum
                      ELSE RAdd(s.final_sum,
                                RDiv(RMul(c.final_pct[1], w), Hundred)),
                   weight_total |-> RAdd(s.weight_total, w)]

weighted_total_zero_when_unweighted(cats) ==
    LET s == rollup_sums(cats)
        scale == IF s.weight_total = Zero THEN Zero
                 ELSE RDiv(Hundred, s.weight_total)
    IN  <<Some(RMul(s.running_sum, scale)), Some(RMul(s.final_sum, scale))>>

weighted_total(cats) ==
    LET s == rollup_sums(cats)
    IN  IF s.weight_total = Zero
        THEN <<None, None>>
        ELSE LET scale == RDiv(Hundred, s.weight_total)
             IN  <<Some(RMul(s.running_sum, scale)),
                   Some(RMul(s.final_sum, scale))>>

---------------------------------------------------------------------------
(* Inputs. *)

SeqsUpTo(S, n) == UNION {[1..k -> S] : k \in 0..n}

GroupNames == {"Exams", "Homework"}

\* Raw weights of an explicit mapping (CLI or config): any numbers.
UserWeightValues == {Float(0 - 1), Zero, Float(1), Float(3)}

\* None, the empty mapping, and every mapping over some of the names.
UserWeightInputs ==
    {None} \cup
    {Some(d) : d \in UNION {[ks -> UserWeightValues] : ks \in SUBSET GroupNames}}

\* group_weight of a source group: absent, a fraction, or a percentage.
CanvasWeightValues ==
    {None, Some(Zero), Some(Rat(2, 5)), Some(Rat(3, 5)),
     Some(Float(40)), Some(Float(60))}

CanvasGroupInputs ==
    [name : GroupNames, group_weight : CanvasWeightValues]

\* A submission of a counted assignment: score, missing and excused vary.
SubmissionInputs ==
    {None} \cup
    {Some(s) : s \in [score : {None, Some(Float(0 - 3)), Some(Float(8))},
                      missing : BOOLEAN, excused : BOOLEAN]}

GradedSubmission ==
    Some([score |-> Some(Float(8)), missing |-> FALSE, excused |-> FALSE])

MissingSubmission ==
    Some([score |-> None, missing |-> TRUE, excused |-> FALSE])

\* Assignments that pass both filters: published, 10 points.
CountedInputs ==
    [published : {TRUE}, points_possible : {Some(Float(10))},
     assignment_group_id : {Some(1), Some(2)},
     submission : SubmissionInputs]

\* Assignments a filter skips: unpublished, or points null, 0 or negative.
\* (published = None is read by "not a.published" as FALSE is.)
SkippedInputs ==
    [published : {FALSE}, points_possible : {Some(Float(10))},
     assignment_group_id : {Some(1), Some(2)},
     submission : {GradedSubmission, MissingSubmission}]
    \cup
    [published : {TRUE},
     points_possible : {None, Some(Zero), Some(Float(0 - 5))},
     assignment_group_id : {Some(1), Some(2)},
     submission : {GradedSubmission, MissingSubmission}]

AssignmentInputs == CountedInputs \cup SkippedInputs

Policies == {IGNORE_ALL, MISSING_ZERO_UPCOMING_IGNORE, ALL_ZERO}

\* A policy string that is none of the three (a config file may hold any):
\* compute_category_results handles it in its else branch.
OtherPolicy == "unrecognised"

PolicyInputs == Policies \cup {OtherPolicy}

\* The groups of the course whose assignments are tallied.
CourseGroups ==
    (1 :> [name |-> "Homework", group_weight |-> None]) @@
    (2 :> [name |-> "Exams", group_weight |-> None])

\* The weight plan of the course: Homework 40%, Exams 60%.
CoursePlan == ("Homework" :> Float(40)) @@ ("Exams" :> Float(60))

\* The fields of a CategoryResult that weighted_total reads vary.
CategoryResultInputs ==
    [group_id : {1}, group_name : {"Homework"},
     weight_pct : {Float(0 - 50), Zero, Float(40), Float(60)},
     running_earned : {Zero}, running_possible : {Zero},
     running_pct : {None, Some(Float(50)), Some(Float(90))},
     final_earned : {Zero}, final_possible : {Zero},
     final_pct : {None, Some(Float(50)), Some(Float(90))}]

---------------------------------------------------------------------------
(* Operations. *)

\* weight_plan = WeightPlan.from_user(weights, groups)
FromUser ==
    /\ pc = "weights"
    /\ weight_plan' = from_user(user_weights, canvas_groups)
    /\ pc' = IF Raised(weight_plan') THEN "value_error" ELSE "resolved"
    /\ UNCHANGED <<user_weights, canvas_groups, assignments, groups_by_id,
                   by_group, final_policy, categories, totals>>
    /\ UNCHANGED <<args, stderr>>

\* by_group = categorize_assignments(assignments, groups_by_id)
Categorize ==
    /\ pc = "course"
    /\ by_group' = by_group_of(assignments)
    /\ groups_by_id' = groups_with_uncategorized(groups_by_id)
    /\ pc' = "categorized"
    /\ UNCHANGED <<user_weights, canvas_groups, weight_plan, assignments,
                   final_policy, categories, totals>>
    /\ UNCHANGED <<args, stderr>>

\* categories = compute_category_results(by_group, groups_by_id, plan, policy)
ComputeCategoryResults ==
    /\ pc = "categorized"
    /\ IF key_error(by_group, groups_by_id)
       THEN /\ pc' = "key_error"
            /\ UNCHANGED categories
       ELSE /\ pc' = "computed"
            /\ categories' = compute_category_results(
                   by_group, groups_by_id, weight_plan.by_group_name,
                   final_policy)
    /\ UNCHANGED <<user_weights, canvas_groups, weight_plan, assignments,
                   groups_by_id, by_group, final_policy, totals>>
    /\ UNCHANGED <<args, stderr>>

\* running_total, final_total = weighted_total(categories)
WeightedTotal ==
    /\ pc = "computed"
    /\ totals' = weighted_total(categories)
    /\ pc' = "done"
    /\ UNCHANGED <<user_weights, canvas_groups, weight_plan, assignments,
                   groups_by_id, by_group, final_policy, categories>>
    /\ UNCHANGED <<args, stderr>>

---------------------------------------------------------------------------
(* Specifications. *)

\* No command-line override, no config file, nothing written to stderr.
NoConfig ==
    /\ course_id = 101
    /\ cli_weights = None
    /\ cli_policy = None
    /\ cfg = EmptyDict
    /\ stderr = << >>

NoCourse ==
    /\ assignments = << >>
    /\ groups_by_id = CourseGroups
    /\ by_group = << >>
    /\ final_policy = MISSING_ZERO_UPCOMING_IGNORE
    /\ categories = << >>
    /\ totals = <<None, None>>

\* The weight resolver on every explicit mapping and list of source groups.
InitWeights ==
    /\ pc = "weights"
    /\ user_weights \in UserWeightInputs
    /\ canvas_groups \in SeqsUpTo(CanvasGroupInputs, MaxGroups)
    /\ weight_plan = Return(EmptyDict)
    /\ NoCourse
    /\ NoConfig

NextWeights == FromUser

SpecWeights == InitWeights /\ [][NextWeights]_vars

\* Categorizer, tally engine and rollup on the assignments of a course.
InitTally ==
    /\ pc = "course"
    /\ user_weights = None
    /\ canvas_groups = << >>
    /\ weight_plan = Return(CoursePlan)
    /\ assignments \in SeqsUpTo(AssignmentInputs, MaxAssignments)
    /\ groups_by_id = CourseGroups
    /\ by_group = << >>
    /\ final_policy \in PolicyInputs
    /\ categories = << >>
    /\ totals = <<None, None>>
    /\ NoConfig

NextTally == Categorize \/ ComputeCategoryResults \/ WeightedTotal

SpecTally == InitTally /\ [][NextTally]_vars

\* The rollup on every list of category results.
InitRollup ==
    /\ pc = "computed"
    /\ user_weights = None
    /\ canvas_groups = << >>
    /\ weight_plan = Return(EmptyDict)
    /\ assignments = << >>
    /\ groups_by_id = CourseGroups
    /\ by_group = << >>
    /\ final_policy = MISSING_ZERO_UPCOMING_IGNORE
    /\ categories \in SeqsUpTo(CategoryResultInputs, MaxCategories)
    /\ totals = <<None, None>>
    /\ NoConfig

NextRollup == WeightedTotal

SpecRollup == InitRollup /\ [][NextRollup]_vars

---------------------------------------------------------------------------
(* Weighted rollup: C1, C2. *)

\* The categories of the rollup that carry a positive weight.
Weighted == {i \in DOMAIN categories : RLt(Zero, categories[i].weight_pct)}

WeightedWithRunning == {i \in Weighted : ~IsNone(categories[i].running_pct)}

WeightedWithFinal == {i \in Weighted : ~IsNone(categories[i].final_pct)}

WeightSum(S) == DictSum([i \in S |-> categories[i].weight_pct])

RunningPoints(S) ==
    DictSum([i \in S |->
                RMul(categories[i].running_pct[1], categories[i].weight_pct)])

FinalPoints(S) ==
    DictSum([i \in S |->
                RMul(categories[i].final_pct[1], categories[i].weight_pct)])

\* C1: a weighted category whose percentage is absent is left out of the
\* denominator too: the running (final) total is the weighted average of the
\* weighted categories that have a running (final) percentage.
C1_AbsentCategoryLeftOut ==
    pc = "done" =>
        /\ WeightedWithRunning # {} =>
              totals[1] = Some(RDiv(RunningPoints(WeightedWithRunning),
                                    WeightSum(WeightedWithRunning)))
        /\ WeightedWithFinal # {} =>
              totals[2] = Some(RDiv(FinalPoints(WeightedWithFinal),
                                    WeightSum(WeightedWithFinal)))

\* C2: the totals are absent exactly when no category has a positive weight;
\* otherwise both are present and are computed from the positively weighted
\* categories alone, whatever the other categories hold.
C2_NonPositiveWeightsIgnored ==
    pc = "done" =>
        /\ (IsNone(totals[1]) /\ IsNone(totals[2])) <=> (Weighted = {})
        /\ Weighted # {} =>
              /\ totals[1] = Some(RDiv(RunningPoints(WeightedWithRunning),
                                       WeightSum(Weighted)))
              /\ totals[2] = Some(RDiv(FinalPoints(WeightedWithFinal),
                                       WeightSum(Weighted)))

\* A rollup over a weighted category and one of negative weight that has
\* percentages of its own.
C2_Witness ==
    /\ pc = "done"
    /\ Len(categories) = 2
    /\ categories[1].weight_pct = Float(40)
    /\ categories[1].running_pct = Some(Float(90))
    /\ categories[2].weight_pct = Float(0 - 50)
    /\ categories[2].running_pct = Some(Float(50))
    /\ totals[1] = Some(Float(90))

---------------------------------------------------------------------------
(* Weight resolver: C3, C4, C5. *)

Explicit == ~IsNone(user_weights) /\ DOMAIN user_weights[1] # {}

Resolved == pc = "resolved"

Failed == pc = "value_error"

\* C3: a plan resolved from a non-empty explicit mapping has the names of
\* the mapping, sums to 100, and holds value / sum(values) * 100 for each.
C3_ExplicitPlanNormalized ==
    (Resolved /\ Explicit) =>
        LET w == user_weights[1]
            plan == weight_plan.by_group_name
        IN  /\ DOMAIN plan = DOMAIN w
            /\ DictSum(plan) = Hundred
            /\ \A k \in DOMAIN w :
                  RMul(plan[k], DictSum(w)) = RMul(w[k], Hundred)

\* The mapping {Homework: 3, Exams: 1} resolved to 75 and 25.
C3_Witness ==
    /\ Resolved
    /\ Explicit
    /\ user_weights[1] = ("Homework" :> Float(3)) @@ ("Exams" :> Float(1))
    /\ weight_plan.by_group_name =
          ("Homework" :> Float(75)) @@ ("Exams" :> Float(25))

\* The source groups that carry a weight, and the sum of those weights.
WeightedGroups ==
    {i \in DOMAIN canvas_groups : ~IsNone(canvas_groups[i].group_weight)}

SourceWeightSum ==
    DictSum([i \in WeightedGroups |-> canvas_groups[i].group_weight[1]])

\* Per name, the weight of the last source group of that name that has one.
SourceNames == {canvas_groups[i].name : i \in WeightedGroups}

LastOfName(n) ==
    CHOOSE i \in WeightedGroups :
        /\ canvas_groups[i].name = n
        /\ \A j \in WeightedGroups : canvas_groups[j].name = n => j <= i

NameKeyedSum ==
    DictSum([n \in SourceNames |->
                canvas_groups[LastOfName(n)].group_weight[1]])

\* C4 as stated: from_user fails exactly when an explicit mapping sums to
\* <= 0, or none is supplied and no source group has a weight, or none is
\* supplied and the non-null source weights sum to <= 0.  ("Supplied" is
\* read as from_user reads it: a mapping that is not None and not empty.)
C4_FailsExactlyOnListedCases ==
    pc # "weights" =>
        (Failed <=>
            \/ Explicit /\ RLe(DictSum(user_weights[1]), Zero)
            \/ ~Explicit /\ WeightedGroups = {}
            \/ ~Explicit /\ RLe(SourceWeightSum, Zero))

\* C4 as amended: the source weights are summed per name, a later group
\* replacing the weight of an earlier group of the same name, and an empty
\* explicit mapping counts as none supplied.
C4_FailsExactlyOnNameKeyedCases ==
    pc # "weights" =>
        (Failed <=>
            \/ Explicit /\ RLe(DictSum(user_weights[1]), Zero)
            \/ ~Explicit /\ WeightedGroups = {}
            \/ ~Explicit /\ RLe(NameKeyedSum, Zero))

\* Two source groups named Homework, weights 40 then 0: the list sums to
\* 40, the name-keyed weights to 0, and the resolver fails.
C4_Witness ==
    /\ Failed
    /\ IsNone(user_weights)
    /\ Len(canvas_groups) = 2
    /\ canvas_groups[1] = [name |-> "Homework", group_weight |-> Some(Float(40))]
    /\ canvas_groups[2] = [name |-> "Homework", group_weight |-> Some(Zero)]

TimesHundred(groups) ==
    [i \in DOMAIN groups |->
        IF IsNone(groups[i].group_weight) THEN groups[i]
        ELSE [groups[i] EXCEPT
                 !.group_weight = Some(RMul(@[1], Hundred))]]

ScenarioD ==
    <<[name |-> "Homework", group_weight |-> Some(Rat(2, 5))],
      [name |-> "Exams", group_weight |-> Some(Rat(3, 5))]>>

\* C5: with no explicit mapping and source weights summing into (0, 1.001],
\* the outcome is the one the same weights times 100 give, a plan being the
\* scaled weights normalized; {0.4, 0.6} resolves to {40, 60}.
C5_FractionsScaled ==
    (pc # "weights" /\ ~Explicit /\ RLt(Zero, SourceWeightSum)
        /\ RLe(SourceWeightSum, Rat(1001, 1000))) =>
        /\ weight_plan = from_user(None, TimesHundred(canvas_groups))
        /\ Resolved =>
              LET plan == weight_plan.by_group_name
              IN  /\ DOMAIN plan = SourceNames
                  /\ \A n \in SourceNames :
                        RMul(plan[n], RMul(NameKeyedSum, Hundred)) =
                        RMul(RMul(canvas_groups[LastOfName(n)].group_weight[1],
                                  Hundred), Hundred)
        /\ canvas_groups = ScenarioD =>
              weight_plan = Return(("Homework" :> Float(40)) @@
                                   ("Exams" :> Float(60)))

\* Source weights 0.4 and 0.6 resolved to 40 and 60.
C5_Witness ==
    /\ Resolved
    /\ IsNone(user_weights)
    /\ canvas_groups = ScenarioD
    /\ weight_plan.by_group_name["Homework"] = Float(40)
    /\ weight_plan.by_group_name["Exams"] = Float(60)

---------------------------------------------------------------------------
(* Category tally engine: C6 to C10. *)

Tallied == pc \in {"computed", "done"}

\* The input assignments of a category, and those of them the claims call
\* counted, graded and flagged missing, read off the input records.
InCategory(gid) ==
    {i \in DOMAIN assignments : gid_of(assignments[i]) = gid}

PassesFilters(a) ==
    /\ a.published
    /\ ~IsNone(a.points_possible)
    /\ RLt(Zero, a.points_possible[1])

GradedWork(a) ==
    /\ ~IsNone(a.submission)
    /\ ~IsNone(a.submission[1].score)
    /\ ~a.submission[1].excused

FlaggedMissing(a) == ~IsNone(a.submission) /\ a.submission[1].missing

CountedIn(gid) == {i \in InCategory(gid) : PassesFilters(assignments[i])}

GradedIn(gid) == {i \in CountedIn(gid) : GradedWork(assignments[i])}

MissingIn(gid) ==
    {i \in CountedIn(gid) \ GradedIn(gid) : FlaggedMissing(assignments[i])}

PointsOf(S) == DictSum([i \in S |-> assignments[i].points_possible[1]])

EarnedOf(S) ==
    DictSum([i \in S |-> RMax(Zero, assignments[i].submission[1].score[1])])

\* Every category that has an assignment is reported once.
AllCategoriesReported ==
    /\ {categories[k].group_id : k \in DOMAIN categories} =
       {gid_of(assignments[i]) : i \in DOMAIN assignments}
    /\ \A k, l \in DOMAIN categories :
          categories[k].group_id = categories[l].group_id => k = l

Work(score, missing, excused) ==
    [published |-> TRUE, points_possible |-> Some(Float(10)),
     assignment_group_id |-> Some(1),
     submission |-> Some([score |-> score, missing |-> missing,
                          excused |-> excused])]

\* A (10 points, score 8) and B (10 points, ungraded), B not missing.
ScenarioA ==
    <<Work(Some(Float(8)), FALSE, FALSE), Work(None, FALSE, FALSE)>>

\* The same with B flagged missing.
ScenarioB ==
    <<Work(Some(Float(8)), FALSE, FALSE), Work(None, TRUE, FALSE)>>

\* C6: under missing_zero_upcoming_ignore the final tally of a category
\* earns max(0, score) for graded counted work and holds as possible the
\* points of counted work that is graded, or ungraded and flagged missing;
\* scenario A gives 80%, scenario B 40%.
C6_MissingZeroUpcomingIgnore ==
    (Tallied /\ final_policy = MISSING_ZERO_UPCOMING_IGNORE) =>
        /\ AllCategoriesReported
        /\ \A k \in DOMAIN categories :
              LET c == categories[k]
              IN  /\ c.final_earned = EarnedOf(GradedIn(c.group_id))
                  /\ c.final_possible =
                        PointsOf(GradedIn(c.group_id) \cup MissingIn(c.group_id))
        /\ assignments = ScenarioA => categories[1].final_pct = Some(Float(80))
        /\ assignments = ScenarioB => categories[1].final_pct = Some(Float(40))

C6_Witness ==
    /\ pc = "done"
    /\ final_policy = MISSING_ZERO_UPCOMING_IGNORE
    /\ assignments = ScenarioB
    /\ categories[1].running_pct = Some(Float(80))
    /\ categories[1].final_pct = Some(Float(40))

\* C7: under all_zero the final possible of a category is the points of all
\* its counted work and the final earned is max(0, score) over the graded.
C7_AllZero ==
    (Tallied /\ final_policy = ALL_ZERO) =>
        /\ AllCategoriesReported
        /\ \A k \in DOMAIN categories :
              LET c == categories[k]
              IN  /\ c.final_earned = EarnedOf(GradedIn(c.group_id))
                  /\ c.final_possible = PointsOf(CountedIn(c.group_id))

\* Graded work beside excused, ungraded work: both count as possible.
C7_Witness ==
    /\ pc = "done"
    /\ final_policy = ALL_ZERO
    /\ assignments =
          <<Work(Some(Float(8)), FALSE, FALSE), Work(None, FALSE, TRUE)>>
    /\ categories[1].final_earned = Float(8)
    /\ categories[1].final_possible = Float(20)

\* C8: under ignore_all the final tally of a category is its running tally.
C8_IgnoreAllIsRunning ==
    (Tallied /\ final_policy = IGNORE_ALL) =>
        /\ AllCategoriesReported
        /\ \A k \in DOMAIN categories :
              LET c == categories[k]
              IN  /\ c.final_earned = c.running_earned
                  /\ c.final_possible = c.running_possible
                  /\ c.final_pct = c.running_pct

\* Scenario B under ignore_all: the missing work is left out of both.
C8_Witness ==
    /\ pc = "done"
    /\ final_policy = IGNORE_ALL
    /\ assignments = ScenarioB
    /\ categories[1].running_possible = Float(10)
    /\ categories[1].final_possible = Float(10)
    /\ categories[1].final_pct = Some(Float(80))

RunningOf(cats) ==
    [k \in DOMAIN cats |->
        <<cats[k].group_id, cats[k].running_earned, cats[k].running_possible,
          cats[k].running_pct>>]

\* C9: whatever the policy, the running tally of a category earns
\* max(0, score) and holds as possible the points of exactly its counted,
\* graded work, and is the one every other policy gives.
C9_RunningTally ==
    Tallied =>
        /\ AllCategoriesReported
        /\ \A k \in DOMAIN categories :
              LET c == categories[k]
              IN  /\ c.running_earned = EarnedOf(GradedIn(c.group_id))
                  /\ c.running_possible = PointsOf(GradedIn(c.group_id))
        /\ \A p \in Policies :
              RunningOf(compute_category_results(
                            by_group, groups_by_id,
                            weight_plan.by_group_name, p))
                  = RunningOf(categories)

\* A negative score beside excused work that has a score: 0 of 10.
C9_Witness ==
    /\ pc = "done"
    /\ final_policy = ALL_ZERO
    /\ assignments =
          <<Work(Some(Float(0 - 3)), FALSE, FALSE),
            Work(Some(Float(8)), FALSE, TRUE)>>
    /\ categories[1].running_earned = Zero
    /\ categories[1].running_possible = Float(10)

Without(seq, i) ==
    [j \in 1..(Len(seq) - 1) |-> IF j < i THEN seq[j] ELSE seq[j + 1]]

ResultSet(cats) == {cats[k] : k \in DOMAIN cats}

\* The category results and course totals the assignments as \in give.
CourseOf(as) ==
    LET cats == compute_category_results(
                    by_group_of(as), groups_by_id,
                    weight_plan.by_group_name, final_policy)
    IN  <<ResultSet(cats), weighted_total(cats)>>

\* C10: an assignment that is unpublished or has no positive points, in a
\* category that has another assignment, can be removed from the input
\* without changing any category result or either course total.
C10_SkippedAssignmentInert ==
    pc = "done" =>
        \A i \in DOMAIN assignments :
            (/\ ~PassesFilters(assignments[i])
             /\ InCategory(gid_of(assignments[i])) # {i})
            => CourseOf(Without(assignments, i))
                  = <<ResultSet(categories), totals>>

\* Unpublished graded work beside counted graded work of its category.
C10_Witness ==
    /\ pc = "done"
    /\ Len(assignments) = 2
    /\ assignments[1] =
          [Work(Some(Float(8)), FALSE, FALSE) EXCEPT !.published = FALSE]
    /\ assignments[2] = Work(Some(Float(8)), FALSE, FALSE)
    /\ categories[1].running_possible = Float(10)
    /\ totals[1] = Some(Float(80))

---------------------------------------------------------------------------
(* Category tally engine: C11, C12, C13, C18. *)

\* C11: in every category result the running (final) percentage is absent
\* exactly when the running (final) possible total is 0, and is
\* earned / possible * 100 otherwise.
C11_PercentageAbsentIffNothingPossible ==
    Tallied =>
        \A k \in DOMAIN categories :
            LET c == categories[k]
            IN  /\ IsNone(c.running_pct) <=> (c.running_possible = Zero)
                /\ IsNone(c.final_pct) <=> (c.final_possible = Zero)
                /\ ~IsNone(c.running_pct) =>
                      RMul(c.running_pct[1], c.running_possible) =
                      RMul(c.running_earned, Hundred)
                /\ ~IsNone(c.final_pct) =>
                      RMul(c.final_pct[1], c.final_possible) =
                      RMul(c.final_earned, Hundred)

\* Missing work alone: no running percentage, a final percentage of 0.
C11_Witness ==
    /\ pc = "done"
    /\ final_policy = MISSING_ZERO_UPCOMING_IGNORE
    /\ assignments = <<Work(None, TRUE, FALSE)>>
    /\ categories[1].running_possible = Zero
    /\ IsNone(categories[1].running_pct)
    /\ categories[1].final_possible = Float(10)
    /\ categories[1].final_pct = Some(Zero)

\* The results the same buckets give under policy p.
Under(p) ==
    compute_category_results(by_group, groups_by_id,
                             weight_plan.by_group_name, p)

SomeMissingIn(gid) ==
    \E i \in InCategory(gid) : FlaggedMissing(assignments[i])

\* C12: for a category with an assignment flagged missing, the final
\* percentage under missing_zero_upcoming_ignore is at most the one under
\* ignore_all for the same assignments, when both are present; it is absent
\* only if the one under ignore_all is.
C12_MissingZeroAtMostIgnoreAll ==
    (Tallied /\ final_policy = MISSING_ZERO_UPCOMING_IGNORE) =>
        \A k \in DOMAIN categories :
            LET c == categories[k]
                o == Under(IGNORE_ALL)[k]
            IN  SomeMissingIn(c.group_id) =>
                   /\ o.group_id = c.group_id
                   /\ (~IsNone(c.final_pct) /\ ~IsNone(o.final_pct)) =>
                         RLe(c.final_pct[1], o.final_pct[1])
                   /\ IsNone(c.final_pct) => IsNone(o.final_pct)

\* Scenario B: 40% under missing_zero_upcoming_ignore, 80% under ignore_all.
C12_Witness ==
    /\ pc = "done"
    /\ final_policy = MISSING_ZERO_UPCOMING_IGNORE
    /\ assignments = ScenarioB
    /\ categories[1].final_pct = Some(Float(40))
    /\ Under(IGNORE_ALL)[1].final_pct = Some(Float(80))

\* C13: the final percentage of a category under all_zero is at most the
\* one under missing_zero_upcoming_ignore for the same assignments, when
\* both are present; it is absent only if the other is.
C13_AllZeroAtMostMissingZero ==
    (Tallied /\ final_policy = ALL_ZERO) =>
        \A k \in DOMAIN categories :
            LET c == categories[k]
                o == Under(MISSING_ZERO_UPCOMING_IGNORE)[k]
            IN  /\ o.group_id = c.group_id
                /\ (~IsNone(c.final_pct) /\ ~IsNone(o.final_pct)) =>
                      RLe(c.final_pct[1], o.final_pct[1])
                /\ IsNone(c.final_pct) => IsNone(o.final_pct)

\* Scenario A: 40% under all_zero, 80% under missing_zero_upcoming_ignore.
C13_Witness ==
    /\ pc = "done"
    /\ final_policy = ALL_ZERO
    /\ assignments = ScenarioA
    /\ categories[1].final_pct = Some(Float(40))
    /\ Under(MISSING_ZERO_UPCOMING_IGNORE)[1].final_pct = Some(Float(80))

\* C18: in every category result, under every policy, final earned equals
\* running earned, final possible >= running possible >= 0 and running
\* earned >= 0; so a final percentage is at most the running percentage.
C18_FinalOnlyAddsPossible ==
    Tallied =>
        \A k \in DOMAIN categories :
            LET c == categories[k]
            IN  /\ c.final_earned = c.running_earned
                /\ RLe(c.running_possible, c.final_possible)
                /\ RLe(Zero, c.running_possible)
                /\ RLe(Zero, c.running_earned)
                /\ (~IsNone(c.final_pct) /\ ~IsNone(c.running_pct)) =>
                      RLe(c.final_pct[1], c.running_pct[1])

\* A negative score beside missing work under all_zero: 0 earned in both
\* tallies, 10 possible running and 20 final.
C18_Witness ==
    /\ pc = "done"
    /\ final_policy = ALL_ZERO
    /\ assignments =
          <<Work(Some(Float(0 - 3)), FALSE, FALSE), Work(None, TRUE, FALSE)>>
    /\ categories[1].running_earned = Zero
    /\ categories[1].final_earned = Zero
    /\ categories[1].running_possible = Float(10)
    /\ categories[1].final_possible = Float(20)

---------------------------------------------------------------------------
(* handle_course: groups and assignments of a course, categorized, given a *)
(* weight plan (with the equal-weight fallback), tallied and rolled up.    *)

\* by_id of get_assignment_groups: by_id[ag.id] = ag over the group list.
RECURSIVE by_id_of(_)
by_id_of(groups) ==
    IF Len(groups) = 0 THEN EmptyDict
    ELSE LET d == by_id_of(SubSeq(groups, 1, Len(groups) - 1))
             g == groups[Len(groups)]
         IN  [k \in DOMAIN d \cup {g.id} |->
                 IF k = g.id
                 THEN [name |-> g.name, group_weight |-> g.group_weight]
                 ELSE d[k]]

\* [groups_by_id[gid].name for gid in by_group.keys()] or ["(Uncategorized)"],
\* as the key set of auto_weights (the gids are keys of groups).
observed_names(buckets, groups) ==
    IF Len(buckets) = 0 THEN {UncategorizedName}
    ELSE {groups[buckets[i].gid].name : i \in DOMAIN buckets}

\* auto_weights = {name: 1.0 for name in group_names}
auto_weights_of(buckets, groups) ==
    [n \in observed_names(buckets, groups) |-> Float(1)]

\* The [INFO] line handle_course prints to stderr.
info_no_weights(cid, auto_weights) ==
    [level |-> "INFO", course |-> cid,
     groups |-> Cardinality(DOMAIN auto_weights)]

\* The group lists of a course: unweighted, weighted, weighted with zeros,
\* and two unweighted groups of the same name.
Group(id, name, weight) ==
    [id |-> id, name |-> name, group_weight |-> weight]

CourseGroupListInputs ==
    {<<Group(1, "Homework", None), Group(2, "Exams", None)>>,
     <<Group(1, "Homework", Some(Float(40))),
       Group(2, "Exams", Some(Float(60)))>>,
     <<Group(1, "Homework", Some(Zero)), Group(2, "Exams", Some(Zero))>>,
     <<Group(1, "Homework", None), Group(2, "Homework", None)>>}

\* Published 10-point assignments of a course: the group id is absent, the
\* id of a group of the course, or an id the group list does not hold.
CourseAssignmentInputs ==
    [published : {TRUE}, points_possible : {Some(Float(10))},
     assignment_group_id : {None, Some(1), Some(2), Some(7)},
     submission : {GradedSubmission, MissingSubmission}]

\* The weights get_effective_weights hands to handle_course.
EffectiveWeightInputs ==
    {None,
     Some(("Homework" :> Float(3)) @@ ("Exams" :> Float(1))),
     Some(("Homework" :> Zero))}

\* by_group = categorize_assignments(assignments, groups_by_id)  (line 558)
CategorizeCourse ==
    /\ pc = "handle_course"
    /\ by_group' = by_group_of(assignments)
    /\ groups_by_id' = groups_with_uncategorized(groups_by_id)
    /\ pc' = "resolve_weights"
    /\ UNCHANGED <<user_weights, canvas_groups, weight_plan, assignments,
                   final_policy, categories, totals, args, stderr>>

\* The try/except of lines 562 to 569.
ResolveWeights ==
    /\ pc = "resolve_weights"
    /\ LET first == from_user(user_weights, canvas_groups)
       IN  IF ~Raised(first)
           THEN /\ weight_plan' = first
                /\ pc' = "categorized"
                /\ UNCHANGED stderr
           ELSE IF key_error(by_group, groups_by_id)
           THEN /\ pc' = "fallback_key_error"
                /\ UNCHANGED <<weight_plan, stderr>>
           ELSE LET auto_weights == auto_weights_of(by_group, groups_by_id)
                    second == from_user(Some(auto_weights), canvas_groups)
                IN  /\ stderr' = Append(stderr,
                                        info_no_weights(course_id, auto_weights))
                    /\ weight_plan' = second
                    /\ pc' = IF Raised(second) THEN "fallback_value_error"
                             ELSE "categorized"
    /\ UNCHANGED <<user_weights, canvas_groups, assignments, groups_by_id,
                   by_group, final_policy, categories, totals, args>>

InitCourse ==
    /\ pc = "handle_course"
    /\ user_weights \in EffectiveWeightInputs
    /\ canvas_groups \in CourseGroupListInputs
    /\ groups_by_id = by_id_of(canvas_groups)
    /\ weight_plan = Return(EmptyDict)
    /\ assignments \in SeqsUpTo(CourseAssignmentInputs, MaxAssignments)
    /\ by_group = << >>
    /\ final_policy \in PolicyInputs
    /\ categories = << >>
    /\ totals = <<None, None>>
    /\ NoConfig

NextCourse ==
    \/ CategorizeCourse
    \/ ResolveWeights
    \/ ComputeCategoryResults
    \/ WeightedTotal

SpecCourse == InitCourse /\ [][NextCourse]_vars

---------------------------------------------------------------------------
(* Categorization and failure propagation in a course: C14, C16, C17       *)

\* The groups of the course as get_assignment_groups returned them.
KnownGroups == by_id_of(canvas_groups)

\* The bucket the contract gives an assignment: its category id, or -1 when
\* the id is null or is not a key of the known categories.
ContractBucketOf(a) ==
    IF IsNone(a.assignment_group_id)
       \/ a.assignment_group_id[1] \notin DOMAIN KnownGroups
    THEN UncategorizedId
    ELSE a.assignment_group_id[1]

\* The assignments of the input list that the contract puts in bucket gid,
\* in input order.
ContractItems(gid) ==
    LET Belongs(a) == ContractBucketOf(a) = gid
    IN  SelectSeq(assignments, Belongs)

\* The display name of the synthetic category, with or without parentheses.
SyntheticNames == {"Uncategorized", UncategorizedName}

\* C14: categorize_assignments is a partition by category id without
\* filtering: every assignment is in exactly one bucket, in input order; a
\* null or unknown category id goes to bucket -1; afterwards a record for -1
\* with the synthetic name exists, added only when absent, and every other
\* category record is unchanged.
C14_PartitionWithUnknownInUncategorized ==
    pc # "handle_course" =>
        /\ \A i, j \in DOMAIN by_group :
               by_group[i].gid = by_group[j].gid => i = j
        /\ \A i \in DOMAIN by_group :
               by_group[i].items = ContractItems(by_group[i].gid)
        /\ \A k \in DOMAIN assignments :
               \E i \in DOMAIN by_group :
                   by_group[i].gid = ContractBucketOf(assignments[k])
        /\ UncategorizedId \in DOMAIN groups_by_id
        /\ groups_by_id[UncategorizedId].name \in SyntheticNames
        /\ DOMAIN groups_by_id = DOMAIN KnownGroups \cup {UncategorizedId}
        /\ \A g \in DOMAIN KnownGroups : groups_by_id[g] = KnownGroups[g]

\* C16: only the Weight Resolver can fail: categorize_assignments, then
\* compute_category_results, then weighted_total never raises, whatever the
\* assignments, the categories, the weight plan and the policy.
C16_PipelineNeverRaises ==
    pc # "key_error"

\* The Weight Resolver failed on the weights of the course.
ResolverFailed == Raised(from_user(user_weights, canvas_groups))

\* The category names observed among the assignments of the course.
ObservedNames ==
    IF Len(assignments) = 0 THEN {UncategorizedName}
    ELSE {groups_by_id[by_group[i].gid].name : i \in DOMAIN by_group}

\* C17: in handle_course, whenever the Weight Resolver fails the caller
\* substitutes an equal-weight plan over the category names observed among
\* the assignments (or "(Uncategorized)" alone when there are none) and
\* reports it on stderr; the second resolution never fails, so the course
\* gets a plan whose values are all equal and sum to 100.
C17_FallbackAlwaysGivesEqualPlan ==
    (pc \notin {"handle_course", "resolve_weights"} /\ ResolverFailed) =>
        /\ pc \notin {"fallback_key_error", "fallback_value_error"}
        /\ ~Raised(weight_plan)
        /\ Len(stderr) = 1
        /\ DOMAIN weight_plan.by_group_name = ObservedNames
        /\ \A m, n \in ObservedNames :
               weight_plan.by_group_name[m] = weight_plan.by_group_name[n]
        /\ DictSum(weight_plan.by_group_name) = Hundred

---------------------------------------------------------------------------
(* Precedence of command line, configuration and defaults.                 *)

\* The course ids of the model.
CourseIds == {101, 202}

\* str(course_id): the decimal text of a course id.
str(cid) == CASE cid = 101 -> "101" [] cid = 202 -> "202"

\* The keys of by_course_id: a number, or a text as YAML and JSON give it.
NumberKey(cid) == <<"int", cid>>

TextKey(text) == <<"str", text>>

\* d.get(key, default)
get(d, key, default) == IF key \in DOMAIN d THEN d[key] ELSE default

\* (cfg.get(name, {}) or {}): an absent or null section reads as {}.
section_of(c, name) == get(c, name, EmptyDict)

\* get_effective_weights with the per-course lookup by number only.
get_effective_weights_number_key_only(cid, cli, c) ==
    IF ~IsNone(cli) /\ DOMAIN cli[1] # {}
    THEN cli
    ELSE LET by_id == get(section_of(c, "weights"), "by_course_id", EmptyDict)
         IN  IF NumberKey(cid) \in DOMAIN by_id
             THEN by_id[NumberKey(cid)]
             ELSE get(section_of(c, "weights"), "default", None)

get_effective_weights(cid, cli, c) ==
    IF ~IsNone(cli) /\ DOMAIN cli[1] # {}
    THEN cli
    ELSE LET by_id == get(section_of(c, "weights"), "by_course_id", EmptyDict)
         IN  IF TextKey(str(cid)) \in DOMAIN by_id
             THEN by_id[TextKey(str(cid))]
             ELSE IF NumberKey(cid) \in DOMAIN by_id
             THEN by_id[NumberKey(cid)]
             ELSE get(section_of(c, "weights"), "default", None)

get_effective_policy(cid, cli, c) ==
    IF ~IsNone(cli) /\ cli[1] # ""
    THEN cli[1]
    ELSE LET by_id ==
                 get(section_of(c, "final_policy"), "by_course_id", EmptyDict)
             default_p == get(section_of(c, "final_policy"), "default", None)
         IN  IF TextKey(str(cid)) \in DOMAIN by_id
             THEN by_id[TextKey(str(cid))]
             ELSE IF NumberKey(cid) \in DOMAIN by_id
             THEN by_id[NumberKey(cid)]
             ELSE IF ~IsNone(default_p) /\ default_p[1] # ""
             THEN default_p[1]
             ELSE MISSING_ZERO_UPCOMING_IGNORE

\* Weight mappings told apart by their single key.
CliWeights == ("Cli" :> Float(1))

TextEntryWeights == ("Text" :> Float(1))

NumberEntryWeights == ("Number" :> Float(1))

DefaultWeights == ("Default" :> Float(1))

\* load_weights_from_args: no option, an empty mapping, or a mapping.
CliWeightInputs == {None, Some(EmptyDict), Some(CliWeights)}

\* --final-policy: absent or one of the choices.
CliPolicyInputs == {None, Some(ALL_ZERO)}

\* by_course_id of the weights section: entries for course 101 under the
\* text key, the number key, both or neither; an entry may be empty.
ByCourseWeightInputs ==
    {EmptyDict,
     (TextKey("101") :> Some(TextEntryWeights)),
     (NumberKey(101) :> Some(NumberEntryWeights)),
     (TextKey("101") :> Some(TextEntryWeights))
         @@ (NumberKey(101) :> Some(NumberEntryWeights)),
     (TextKey("101") :> Some(EmptyDict))}

ByCoursePolicyInputs ==
    {EmptyDict,
     (TextKey("101") :> IGNORE_ALL),
     (NumberKey(101) :> ALL_ZERO),
     (TextKey("101") :> IGNORE_ALL) @@ (NumberKey(101) :> ALL_ZERO)}

\* A section of the configuration: absent, or by_course_id and default.
WeightSectionInputs ==
    {EmptyDict} \cup
    {("by_course_id" :> b) @@ ("default" :> d) :
        b \in ByCourseWeightInputs, d \in {None, Some(DefaultWeights)}}

PolicySectionInputs ==
    {EmptyDict} \cup
    {("by_course_id" :> b) @@ ("default" :> d) :
        b \in ByCoursePolicyInputs, d \in {None, Some(""), Some(IGNORE_ALL)}}

\* load_config: {} without a file, else the two sections.
ConfigInputs ==
    {EmptyDict} \cup
    {("weights" :> w) @@ ("final_policy" :> p) :
        w \in WeightSectionInputs, p \in PolicySectionInputs}

\* policy = get_effective_policy(cid, args.final_policy, cfg)  (line 555)
GetEffectivePolicy ==
    /\ pc = "precedence"
    /\ final_policy' = get_effective_policy(course_id, cli_policy, cfg)
    /\ pc' = "policy_resolved"
    /\ UNCHANGED <<user_weights, canvas_groups, weight_plan, assignments,
                   groups_by_id, by_group, categories, totals, args, stderr>>

\* weights = get_effective_weights(cid, cli_global_weights, cfg)  (line 561)
GetEffectiveWeights ==
    /\ pc = "policy_resolved"
    /\ user_weights' = get_effective_weights(course_id, cli_weights, cfg)
    /\ pc' = "weights_resolved"
    /\ UNCHANGED <<canvas_groups, weight_plan, assignments, groups_by_id,
                   by_group, final_policy, categories, totals, args, stderr>>

InitPrecedence ==
    /\ pc = "precedence"
    /\ course_id \in CourseIds
    /\ cli_weights \in CliWeightInputs
    /\ cli_policy \in CliPolicyInputs
    /\ cfg \in ConfigInputs
    /\ stderr = << >>
    /\ user_weights = None
    /\ canvas_groups = << >>
    /\ weight_plan = Return(EmptyDict)
    /\ assignments = << >>
    /\ groups_by_id = EmptyDict
    /\ by_group = << >>
    /\ final_policy = ""
    /\ categories = << >>
    /\ totals = <<None, None>>

NextPrecedence ==
    \/ GetEffectivePolicy
    \/ GetEffectiveWeights

SpecPrecedence == InitPrecedence /\ [][NextPrecedence]_vars

---------------------------------------------------------------------------
(* Precedence resolver: C15                                                *)

\* The by_course_id mapping and the default of a section of the config.
PerCourse(name) ==
    IF name \in DOMAIN cfg /\ "by_course_id" \in DOMAIN cfg[name]
    THEN cfg[name]["by_course_id"]
    ELSE EmptyDict

DefaultOf(name) ==
    IF name \in DOMAIN cfg /\ "default" \in DOMAIN cfg[name]
    THEN cfg[name]["default"]
    ELSE None

\* The keys under which the course has an entry: its number or its text.
EntryKeys(name) ==
    {NumberKey(course_id), TextKey(str(course_id))} \cap DOMAIN PerCourse(name)

\* A command-line override is given when it holds something: an empty
\* mapping overrides nothing.
CliWeightsGiven == ~IsNone(cli_weights) /\ cli_weights[1] # EmptyDict

CliPolicyGiven == ~IsNone(cli_policy)

DefaultPolicyGiven ==
    ~IsNone(DefaultOf("final_policy")) /\ DefaultOf("final_policy")[1] # ""

\* C15: weights and policy are each resolved first match wins: the command
\* line override if given; else the per-course entry of the configuration,
\* found under the number of the course or under its text; else the default
\* of the configuration; else no weights, and missing_zero_upcoming_ignore
\* for the policy.
C15_FirstMatchWins ==
    /\ pc # "precedence" =>
           IF CliPolicyGiven
           THEN final_policy = cli_policy[1]
           ELSE IF EntryKeys("final_policy") # {}
           THEN \E k \in EntryKeys("final_policy") :
                    final_policy = PerCourse("final_policy")[k]
           ELSE IF DefaultPolicyGiven
           THEN final_policy = DefaultOf("final_policy")[1]
           ELSE final_policy = MISSING_ZERO_UPCOMING_IGNORE
    /\ pc = "weights_resolved" =>
           IF CliWeightsGiven
           THEN user_weights = cli_weights
           ELSE IF EntryKeys("weights") # {}
           THEN \E k \in EntryKeys("weights") :
                    user_weights = PerCourse("weights")[k]
           ELSE IF ~IsNone(DefaultOf("weights"))
           THEN user_weights = DefaultOf("weights")
           ELSE user_weights = None

\* The per-course weights are found under the text key while a default is
\* configured, and the policy falls through to the hard-coded default.
C15_Witness ==
    /\ pc = "weights_resolved"
    /\ ~CliWeightsGiven
    /\ EntryKeys("weights") = {TextKey(str(course_id))}
    /\ ~IsNone(DefaultOf("weights"))
    /\ user_weights = Some(TextEntryWeights)
    /\ ~CliPolicyGiven
    /\ EntryKeys("final_policy") = {}
    /\ ~DefaultPolicyGiven
    /\ final_policy = MISSING_ZERO_UPCOMING_IGNORE

===========================================================================
